---- MODULE Spec2Model ----
(***************************************************************************)
(* Model of the nightfall-file-scanner Flask service (src/app.py).         *)
(*                                                                         *)
(* Each HTTP request is served by one call of its route's view function.   *)
(* A call is cut into steps at the points where it reads the request,      *)
(* calls the Nightfall SDK, or answers.  Text that the code concatenates   *)
(* or percent-encodes is a sequence of one-character strings; a value that *)
(* may be Python's None is a tuple: <<>> for None, <<v>> for v.            *)
(***************************************************************************)
EXTENDS Integers, Sequences, FiniteSets, TLC

\* ------------------------------------------------------------------ bounds
\* Longest findingsURL drawn from URLAlphabet.
MaxLen == 3
\* Number of requests in flight at once.
NumReqs == 2

Reqs == 1..NumReqs

\* ---------------------------------------------------------- optional values
None == <<>>
Some(v) == <<v>>
IsSome(o) == Len(o) = 1
Val(o) == o[1]

\* Python truthiness of data.get(key) for a string-valued key (None and ""
\* are falsy) and for a boolean-valued key (None and false are falsy).
TruthyStr(o) == IsSome(o) /\ Val(o) # ""
TruthyBool(o) == IsSome(o) /\ Val(o) = TRUE

\* ------------------------------------------------------ urllib.parse.quote
\* Printable ASCII, in code order from 32 (space) to 126 (tilde).  The grave
\* accent (96) cannot be written in a string here and is spelled GRAVE.
Ascii ==
    <<" ", "!", "\"", "#", "$", "%", "&", "'", "(", ")", "*", "+", ",", "-", ".", "/",
      "0", "1", "2", "3", "4", "5", "6", "7", "8", "9", ":", ";", "<", "=", ">", "?",
      "@", "A", "B", "C", "D", "E", "F", "G", "H", "I", "J", "K", "L", "M", "N", "O",
      "P", "Q", "R", "S", "T", "U", "V", "W", "X", "Y", "Z", "[", "\\", "]", "^", "_",
      "GRAVE", "a", "b", "c", "d", "e", "f", "g", "h", "i", "j", "k", "l", "m", "n", "o",
      "p", "q", "r", "s", "t", "u", "v", "w", "x", "y", "z", "{", "|", "}", "~">>

Ord(c) == 31 + CHOOSE i \in 1..Len(Ascii) : Ascii[i] = c
Chr(n) == IF n \in 32..126 THEN Ascii[n - 31] ELSE "\\x"

UpperHex == <<"0", "1", "2", "3", "4", "5", "6", "7", "8", "9", "A", "B", "C", "D", "E", "F">>
LowerHex == <<"0", "1", "2", "3", "4", "5", "6", "7", "8", "9", "a", "b", "c", "d", "e", "f">>

\* Characters quote never encodes (urllib's _ALWAYS_SAFE): letters, digits, _.-~
AlwaysSafe ==
    {Ascii[i] : i \in 17..26} \cup {Ascii[i] : i \in 34..59} \cup {Ascii[i] : i \in 66..91}
      \cup {"_", ".", "-", "~"}

\* '%XX' with upper-case hex digits.
PercentByte(c) == <<"%", UpperHex[(Ord(c) \div 16) + 1], UpperHex[(Ord(c) % 16) + 1]>>

RECURSIVE QuoteWith(_, _)
QuoteWith(s, safe) ==
    IF s = <<>> THEN <<>>
    ELSE (IF s[1] \in AlwaysSafe \cup safe THEN <<s[1]>> ELSE PercentByte(s[1]))
           \o QuoteWith(Tail(s), safe)

\* A bug: quote called with safe='' (every reserved character encoded).
QuoteSafeEmpty(s) == QuoteWith(s, {})
\* A bug: '%' passed through, so an input that already holds an escape is ambiguous.
QuoteKeepPercent(s) == QuoteWith(s, {"/", "%"})

\* urllib.parse.quote(string) with its default safe='/'.
Quote(s) == QuoteWith(s, {"/"})

\* ---------------------------------------------------- percent-decoding
IsHex(c) == \E i \in 1..16 : UpperHex[i] = c \/ LowerHex[i] = c
HexVal(c) == (CHOOSE i \in 1..16 : UpperHex[i] = c \/ LowerHex[i] = c) - 1

RECURSIVE Unquote(_)
Unquote(s) ==
    IF s = <<>> THEN <<>>
    ELSE IF s[1] = "%" /\ Len(s) >= 3 /\ IsHex(s[2]) /\ IsHex(s[3])
         THEN <<Chr(16 * HexVal(s[2]) + HexVal(s[3]))>> \o Unquote(SubSeq(s, 4, Len(s)))
         ELSE <<s[1]>> \o Unquote(Tail(s))

\* --------------------------------------------------------------- inputs
URLAlphabet == {"a", "/", ":", "%", "4"}

RECURSIVE StringsUpTo(_)
StringsUpTo(n) ==
    IF n = 0 THEN {<<>>}
    ELSE LET shorter == StringsUpTo(n - 1)
         IN shorter \cup {Append(s, c) : s \in shorter, c \in URLAlphabet}

\* The URL of the spec's scenario: https://x/y?a=b
ScenarioURL == <<"h", "t", "t", "p", "s", ":", "/", "/", "x", "/", "y", "?", "a", "=", "b">>

URLs == StringsUpTo(MaxLen) \cup {ScenarioURL}

\* A parsed JSON object: every key the handlers look up, None when absent.
Object(ch, fp, url, vu, path) ==
    [challenge |-> ch, findingsPresent |-> fp, findingsURL |-> url,
     validUntil |-> vu, filepath |-> path]

EmptyObject == Object(None, None, None, None, None)

\* A request: its route, its raw body (well-formed JSON holding obj, or
\* not), the two Nightfall headers and the root URL it was sent to.
Request(route, wf, obj, sig, ts) ==
    [route |-> route, wellformed |-> wf, obj |-> obj, sig |-> sig, ts |-> ts,
     url_root |-> "http://localhost:5000/"]

IdleRequest == Request("none", FALSE, EmptyObject, None, None)

Signatures == {None, Some("sig")}
Timestamps == {None, Some("1700000000")}

IngestObjects ==
    {Object(ch, fp, url, vu, None) :
        ch \in {None, Some(""), Some("abc123")},
        fp \in {None, Some(FALSE), Some(TRUE)},
        url \in {None} \cup {Some(u) : u \in URLs},
        vu \in {None, Some("2025-01-01")}}

ScanObjects == {Object(None, None, None, None, p) : p \in {None, Some(""), Some("sample-pci-xs.csv")}}

IngestRequests ==
    {Request("ingest", TRUE, o, sig, ts) : o \in IngestObjects, sig \in Signatures, ts \in Timestamps}
      \cup {Request("ingest", FALSE, EmptyObject, sig, ts) : sig \in Signatures, ts \in Timestamps}

ScanRequests ==
    {Request("scan-request", TRUE, o, None, None) : o \in ScanObjects}
      \cup {Request("scan-request", FALSE, EmptyObject, None, None)}

Requests == IngestRequests \cup ScanRequests

\* The requests of the concurrent specification: one per branch of the handlers.
ConcObjects ==
    {Object(Some("abc123"), None, None, None, None),
     Object(None, Some(FALSE), None, None, None),
     Object(None, Some(TRUE), Some(ScenarioURL), Some("2025-01-01"), None),
     Object(None, Some(TRUE), None, None, None)}

ConcRequests ==
    {Request("ingest", TRUE, o, h[1], h[2]) :
        o \in ConcObjects, h \in {<<None, None>>, <<Some("sig"), Some("1700000000")>>}}
      \cup {Request("ingest", FALSE, EmptyObject, Some("sig"), Some("1700000000"))}
      \cup {Request("scan-request", TRUE, Object(None, None, None, None, p), None, None) :
              p \in {None, Some("sample-pci-xs.csv")}}
      \cup {Request("scan-request", FALSE, EmptyObject, None, None)}

\* ---------------------------------------------------------------- state
VARIABLES
    req,        \* req[r]: the request that call r serves
    pc,         \* pc[r]: where call r stands in its view function
    frame,      \* frame[c]: the local variables of the call with context c
    resp,       \* resp[r]: None, or the response call r returned
    stdout,     \* stdout[r]: what call r has printed, in order
    calls,      \* calls[r]: the SDK calls that call r has made, in order
    nightfall,  \* the module-level SDK client
    environ     \* the process environment

vars == <<req, pc, frame, resp, stdout, calls, nightfall, environ>>

\* A bug: the locals kept in one module-level object that every call shares.
CtxGlobal(r) == 1

\* The locals of a view function, and what Flask's request proxy resolves to,
\* belong to the call: one context per request.
Ctx(r) == r

EmptyFrame ==
    [data |-> None, challenge |-> None, request_signature |-> None,
     request_timestamp |-> None, request_data |-> None, valid |-> None,
     escaped_url |-> None, filepath |-> None, webhook_url |-> None]

NightfallClient == [key |-> "NIGHTFALL_API_KEY", signing_secret |-> "NIGHTFALL_SIGNING_SECRET"]
Environment == [NIGHTFALL_SERVER_URL |-> "https://scanner.example"]

\* request.get_json(...): the parsed object, or None when nothing parses.
GetJson(q) == IF q.wellformed THEN Some(q.obj) ELSE None
\* request.get_data(as_text=True): the raw body, here the request's body part.
GetData(q) == [wellformed |-> q.wellformed, obj |-> q.obj]

Response(status, text, json, exc) ==
    [status |-> status, text |-> text, json |-> json, exc |-> exc]
\* What Flask answers when a view function raises an exception it does not handle.
InternalServerError(exc) == Response(500, "Internal Server Error", None, exc)

Line(tag, arg) == [tag |-> tag, arg |-> arg]

TypeOK ==
    /\ pc \in [Reqs -> {"idle", "start", "parsed", "headers", "validate", "dispatch",
                        "check", "scan", "done"}]
    /\ \A r \in Reqs : Len(resp[r]) <= 1

InitRest ==
    /\ pc = [r \in Reqs |-> IF req[r] = IdleRequest THEN "idle" ELSE "start"]
    /\ frame = [r \in Reqs |-> EmptyFrame]
    /\ resp = [r \in Reqs |-> None]
    /\ stdout = [r \in Reqs |-> <<>>]
    /\ calls = [r \in Reqs |-> <<>>]
    /\ nightfall = NightfallClient
    /\ environ = Environment

\* One request, any input; the other calls never start.
Init ==
    /\ \E q \in Requests : req = [r \in Reqs |-> IF r = 1 THEN q ELSE IdleRequest]
    /\ InitRest

\* Every call in flight, each with one of the branch-covering requests.
InitConc ==
    /\ req \in [Reqs -> ConcRequests]
    /\ InitRest

\* ------------------------------------------------------- shared plumbing
PrintLines(r, lines) == stdout' = [stdout EXCEPT ![r] = @ \o lines]
Return(r, response) == /\ resp' = [resp EXCEPT ![r] = Some(response)]
                       /\ pc' = [pc EXCEPT ![r] = "done"]
Goto(r, label) == /\ pc' = [pc EXCEPT ![r] = label]
                  /\ UNCHANGED resp

\* ------------------------------------------------------------ POST /ingest
\* data = request.get_json(silent=True); print("Received Data:", data)
IngestParse(r) ==
    /\ pc[r] = "start" /\ req[r].route = "ingest"
    /\ frame' = [frame EXCEPT ![Ctx(r)].data = GetJson(req[r])]
    /\ PrintLines(r, <<Line("Received Data:", GetJson(req[r]))>>)
    /\ Goto(r, "parsed")
    /\ UNCHANGED <<req, calls, nightfall, environ>>

\* A bug: the handshake branch left out, every request goes on to be verified.
IngestChallengeSkipped(r) ==
    /\ pc[r] = "parsed" /\ req[r].route = "ingest"
    /\ IF ~IsSome(frame[Ctx(r)].data)
       THEN /\ Return(r, InternalServerError("AttributeError"))
            /\ UNCHANGED <<frame, stdout>>
       ELSE /\ frame' = [frame EXCEPT ![Ctx(r)].challenge = Val(frame[Ctx(r)].data).challenge]
            /\ Goto(r, "headers")
            /\ UNCHANGED stdout
    /\ UNCHANGED <<req, calls, nightfall, environ>>

\* challenge = data.get("challenge"); if challenge: print(...); return challenge
\* data is None when the body did not parse: None has no get, AttributeError.
IngestChallenge(r) ==
    /\ pc[r] = "parsed" /\ req[r].route = "ingest"
    /\ IF ~IsSome(frame[Ctx(r)].data)
       THEN /\ Return(r, InternalServerError("AttributeError"))
            /\ UNCHANGED <<frame, stdout>>
       ELSE LET challenge == Val(frame[Ctx(r)].data).challenge
            IN /\ frame' = [frame EXCEPT ![Ctx(r)].challenge = challenge]
               /\ IF TruthyStr(challenge)
                  THEN /\ PrintLines(r, <<Line("Challenge received:", challenge)>>)
                       /\ Return(r, Response(200, Val(challenge), None, "none"))
                  ELSE /\ Goto(r, "headers")
                       /\ UNCHANGED stdout
    /\ UNCHANGED <<req, calls, nightfall, environ>>

\* A bug: request.headers.get(name, ""), an absent header read as the empty string.
IngestReadHeadersDefault(r) ==
    /\ pc[r] = "headers" /\ req[r].route = "ingest"
    /\ LET sig == IF IsSome(req[r].sig) THEN req[r].sig ELSE Some("")
           ts == IF IsSome(req[r].ts) THEN req[r].ts ELSE Some("")
       IN /\ frame' = [frame EXCEPT ![Ctx(r)].request_signature = sig,
                                    ![Ctx(r)].request_timestamp = ts,
                                    ![Ctx(r)].request_data = Some(GetData(req[r]))]
          /\ PrintLines(r, <<Line("Request Signature:", sig), Line("Request Timestamp:", ts),
                             Line("Request Data:", Some(GetData(req[r])))>>)
    /\ Goto(r, "validate")
    /\ UNCHANGED <<req, calls, nightfall, environ>>

\* request_signature, request_timestamp = request.headers.get(...) (None when
\* the header is absent); request_data = request.get_data(as_text=True); prints.
IngestReadHeaders(r) ==
    /\ pc[r] = "headers" /\ req[r].route = "ingest"
    /\ frame' = [frame EXCEPT ![Ctx(r)].request_signature = req[r].sig,
                              ![Ctx(r)].request_timestamp = req[r].ts,
                              ![Ctx(r)].request_data = Some(GetData(req[r]))]
    /\ PrintLines(r, <<Line("Request Signature:", req[r].sig),
                       Line("Request Timestamp:", req[r].ts),
                       Line("Request Data:", Some(GetData(req[r])))>>)
    /\ Goto(r, "validate")
    /\ UNCHANGED <<req, calls, nightfall, environ>>

\* What nightfall.validate_webhook may return.  The SDK is a black box that
\* returns a boolean; it rejects a request whose signature or timestamp is absent.
ValidateWebhook(sig, ts, data) ==
    IF ~IsSome(sig) \/ ~IsSome(ts) THEN {FALSE} ELSE BOOLEAN

\* nightfall.validate_webhook(request_signature, request_timestamp, request_data)
IngestValidate(r) ==
    /\ pc[r] = "validate" /\ req[r].route = "ingest"
    /\ LET f == frame[Ctx(r)]
       IN \E ok \in ValidateWebhook(f.request_signature, f.request_timestamp, f.request_data) :
            /\ calls' = [calls EXCEPT ![r] = Append(@,
                            [fn |-> "validate_webhook", signature |-> f.request_signature,
                             timestamp |-> f.request_timestamp, data |-> f.request_data,
                             secret |-> nightfall.signing_secret, result |-> ok])]
            /\ frame' = [frame EXCEPT ![Ctx(r)].valid = Some(ok)]
    /\ Goto(r, "dispatch")
    /\ UNCHANGED <<req, stdout, nightfall, environ>>

\* The printed findings message: the parts the f-string puts between its fixed text.
FindingsMessage(validUntil, findingsURL, url_root, escaped_url) ==
    Line("Sensitive data present.",
         [validUntil |-> validUntil, download |-> findingsURL,
          view_root |-> url_root, view_path |-> "view?findings_url=",
          view_query |-> escaped_url])

\* if not data.get("findingsPresent"): print(...); return "", 200
\* escaped_url = urllib.parse.quote(data['findingsURL']); print(f"..."); return "", 200
\* data['findingsURL'] and data['validUntil'] raise KeyError when the key is absent.
\* no_text and found_text are the bodies of the two returns (both "" in the code).
ProcessFindings(r, no_text, found_text) ==
    LET data == Val(frame[Ctx(r)].data)
    IN IF ~TruthyBool(data.findingsPresent)
       THEN /\ PrintLines(r, <<Line("No sensitive data present!", None)>>)
            /\ Return(r, Response(200, no_text, None, "none"))
            /\ UNCHANGED frame
       ELSE IF ~IsSome(data.findingsURL)
       THEN /\ Return(r, InternalServerError("KeyError"))
            /\ UNCHANGED <<frame, stdout>>
       ELSE LET escaped_url == Quote(Val(data.findingsURL))
            IN /\ frame' = [frame EXCEPT ![Ctx(r)].escaped_url = Some(escaped_url)]
               /\ IF ~IsSome(data.validUntil)
                  THEN /\ Return(r, InternalServerError("KeyError"))
                       /\ UNCHANGED stdout
                  ELSE /\ PrintLines(r, <<FindingsMessage(Val(data.validUntil),
                                              Val(data.findingsURL), req[r].url_root,
                                              escaped_url)>>)
                       /\ Return(r, Response(200, found_text, None, "none"))

\* else: print("Invalid webhook signature or timestamp."); return "Invalid webhook", 500
RejectWebhook(r) ==
    /\ PrintLines(r, <<Line("Invalid webhook signature or timestamp.", None)>>)
    /\ Return(r, Response(500, "Invalid webhook", None, "none"))
    /\ UNCHANGED frame

\* A bug: the findings message returned to the caller instead of an empty body.
IngestDispatchReturnsMessage(r) ==
    /\ pc[r] = "dispatch" /\ req[r].route = "ingest"
    /\ IF Val(frame[Ctx(r)].valid)
       THEN ProcessFindings(r, "", "Sensitive data present.")
       ELSE RejectWebhook(r)
    /\ UNCHANGED <<req, calls, nightfall, environ>>

\* A bug: the result of validate_webhook ignored.
IngestDispatchUnverified(r) ==
    /\ pc[r] = "dispatch" /\ req[r].route = "ingest"
    /\ ProcessFindings(r, "", "")
    /\ UNCHANGED <<req, calls, nightfall, environ>>

\* if nightfall.validate_webhook(...): <findings> else: <reject>
IngestDispatch(r) ==
    /\ pc[r] = "dispatch" /\ req[r].route = "ingest"
    /\ IF Val(frame[Ctx(r)].valid)
       THEN ProcessFindings(r, "", "")
       ELSE RejectWebhook(r)
    /\ UNCHANGED <<req, calls, nightfall, environ>>

\* ------------------------------------------------------ POST /scan-request
\* data = request.get_json(): a body that does not parse raises BadRequest,
\* which Flask answers with 400.
ScanParse(r) ==
    /\ pc[r] = "start" /\ req[r].route = "scan-request"
    /\ IF ~IsSome(GetJson(req[r]))
       THEN /\ Return(r, Response(400, "Bad Request", None, "BadRequest"))
            /\ UNCHANGED frame
       ELSE /\ frame' = [frame EXCEPT ![Ctx(r)].data = GetJson(req[r])]
            /\ Goto(r, "check")
    /\ UNCHANGED <<req, stdout, calls, nightfall, environ>>

\* f"{os.getenv('NIGHTFALL_SERVER_URL')}/ingest", as the pair of its two parts.
WebhookURL == <<environ.NIGHTFALL_SERVER_URL, "/ingest">>

\* A bug: the filepath check left out.
ScanCheckNoGuard(r) ==
    /\ pc[r] = "check" /\ req[r].route = "scan-request"
    /\ frame' = [frame EXCEPT ![Ctx(r)].filepath = Val(frame[Ctx(r)].data).filepath,
                              ![Ctx(r)].webhook_url = Some(WebhookURL)]
    /\ Goto(r, "scan")
    /\ UNCHANGED <<req, stdout, calls, nightfall, environ>>

\* filepath = data.get("filepath"); webhook_url = ...
\* if not filepath: return {"error": "File path is required"}, 400
ScanCheck(r) ==
    /\ pc[r] = "check" /\ req[r].route = "scan-request"
    /\ LET filepath == Val(frame[Ctx(r)].data).filepath
       IN /\ frame' = [frame EXCEPT ![Ctx(r)].filepath = filepath,
                                    ![Ctx(r)].webhook_url = Some(WebhookURL)]
          /\ IF ~TruthyStr(filepath)
             THEN Return(r, Response(400, "", Some([error |-> "File path is required"]), "none"))
             ELSE Goto(r, "scan")
    /\ UNCHANGED <<req, stdout, calls, nightfall, environ>>

\* What nightfall.scan_file may return: a (scan_id, message) pair of the SDK's choosing.
ScanFileResults ==
    {[scan_id |-> "scan-1", message |-> "scan initiated"],
     [scan_id |-> "scan-2", message |-> "scan queued"]}

\* scan_id, message = nightfall.scan_file(filepath, webhook_url=..., detection_rules=[...])
\* return {"scan_id": scan_id, "message": message}, 200
ScanFile(r) ==
    /\ pc[r] = "scan" /\ req[r].route = "scan-request"
    /\ \E result \in ScanFileResults :
         /\ calls' = [calls EXCEPT ![r] = Append(@,
                         [fn |-> "scan_file", filepath |-> frame[Ctx(r)].filepath,
                          webhook_url |-> frame[Ctx(r)].webhook_url,
                          detector |-> "CREDIT_CARD_NUMBER", min_confidence |-> "LIKELY",
                          key |-> nightfall.key, result |-> result])]
         /\ Return(r, Response(200, "", Some(result), "none"))
    /\ UNCHANGED <<req, frame, stdout, nightfall, environ>>

\* ------------------------------------------------------------ the service
Next ==
    \E r \in Reqs :
        \/ IngestParse(r)
        \/ IngestChallenge(r)
        \/ IngestReadHeaders(r)
        \/ IngestValidate(r)
        \/ IngestDispatch(r)
        \/ ScanParse(r)
        \/ ScanCheck(r)
        \/ ScanFile(r)

Spec == Init /\ [][Next]_vars
SpecConc == InitConc /\ [][Next]_vars

\* ------------------------------------------------------------- properties
IsIngest(r) == req[r].route = "ingest"
IsScan(r) == req[r].route = "scan-request"
Done(r) == pc[r] = "done"
\* The body is a JSON object with no challenge, or an empty one.
NoChallenge(r) == req[r].wellformed /\ ~TruthyStr(req[r].obj.challenge)
ValidateCalls(r) == SelectSeq(calls[r], LAMBDA c : c.fn = "validate_webhook")
ScanCalls(r) == SelectSeq(calls[r], LAMBDA c : c.fn = "scan_file")
Printed(r, tag) == SelectSeq(stdout[r], LAMBDA l : l.tag = tag)
FindingsLines(r) == Printed(r, "Sensitive data present.")
VerifiedTrue(r) == Len(ValidateCalls(r)) = 1 /\ ValidateCalls(r)[1].result = TRUE
Answer(r) == Val(resp[r])

\* C1: a POST /ingest whose JSON body holds a non-empty challenge never reaches
\* the header or verification steps, validate_webhook is never called for it,
\* and its response is 200 with the challenge value as body, whatever the two
\* headers and the other fields of the body are.
C1_HandshakeShortCircuit ==
    \A r \in Reqs :
        (IsIngest(r) /\ req[r].wellformed /\ TruthyStr(req[r].obj.challenge))
        => /\ ValidateCalls(r) = <<>>
           /\ pc[r] \in {"start", "parsed", "done"}
           /\ Done(r) => resp[r] = Some(Response(200, Val(req[r].obj.challenge), None, "none"))

\* A handshake answered although both headers are absent and the body also
\* carries findings fields.
C1_Witness ==
    \E r \in Reqs :
        /\ IsIngest(r) /\ Done(r)
        /\ req[r].obj.challenge = Some("abc123")
        /\ req[r].sig = None /\ req[r].ts = None
        /\ TruthyBool(req[r].obj.findingsPresent) /\ IsSome(req[r].obj.findingsURL)
        /\ Answer(r).status = 200 /\ Answer(r).text = "abc123"

\* C2: a finished POST /ingest whose JSON body holds no challenge has made
\* exactly one validate_webhook call, with the two header values and the raw
\* body; on false the response is 500 "Invalid webhook", on true the status is
\* 200, whatever findingsPresent, findingsURL and validUntil are.
C2_AuthenticityDispatch ==
    \A r \in Reqs :
        (IsIngest(r) /\ NoChallenge(r) /\ Done(r))
        => /\ Len(ValidateCalls(r)) = 1
           /\ LET call == ValidateCalls(r)[1]
              IN /\ call.signature = req[r].sig
                 /\ call.timestamp = req[r].ts
                 /\ call.data = Some(GetData(req[r]))
                 /\ ~call.result => resp[r] = Some(Response(500, "Invalid webhook", None, "none"))
                 /\ call.result => Answer(r).status = 200

\* C3: a finished, verified POST /ingest without challenge answers 200 with an
\* empty body when findingsPresent is false or absent, and also when it is true
\* with findingsURL and validUntil present; in the latter case the findings
\* message is printed once and is no part of the response.
C3_EmptyBodyWhenVerified ==
    \A r \in Reqs :
        (IsIngest(r) /\ NoChallenge(r) /\ Done(r) /\ VerifiedTrue(r))
        => LET o == req[r].obj
           IN /\ ~TruthyBool(o.findingsPresent)
                 => /\ resp[r] = Some(Response(200, "", None, "none"))
                    /\ FindingsLines(r) = <<>>
              /\ (TruthyBool(o.findingsPresent) /\ IsSome(o.findingsURL) /\ IsSome(o.validUntil))
                 => /\ resp[r] = Some(Response(200, "", None, "none"))
                    /\ Len(FindingsLines(r)) = 1

\* A verified findings notification answered, with its message printed.
C3_Witness ==
    \E r \in Reqs :
        /\ IsIngest(r) /\ NoChallenge(r) /\ Done(r) /\ VerifiedTrue(r)
        /\ TruthyBool(req[r].obj.findingsPresent)
        /\ Len(FindingsLines(r)) = 1
        /\ Answer(r).text = ""

\* C4: a finished POST /ingest whose body is no JSON is answered 400, not by
\* an unhandled exception.
C4_MalformedBodyIs400 ==
    \A r \in Reqs :
        (IsIngest(r) /\ ~req[r].wellformed /\ Done(r))
        => Answer(r).status = 400 /\ Answer(r).exc \in {"none", "BadRequest"}

C6_ScanRequest ==
    \A r \in Reqs :
        (IsScan(r) /\ req[r].wellformed)
        => LET path == req[r].obj.filepath
           IN /\ Len(ScanCalls(r)) <= 1
              /\ \A i \in 1..Len(ScanCalls(r)) :
                    /\ TruthyStr(path)
                    /\ ScanCalls(r)[i].filepath = path
                    /\ ScanCalls(r)[i].webhook_url = Some(<<Environment.NIGHTFALL_SERVER_URL, "/ingest">>)
              /\ (Done(r) /\ ~TruthyStr(path))
                 => /\ ScanCalls(r) = <<>>
                    /\ resp[r] = Some(Response(400, "", Some([error |-> "File path is required"]), "none"))
              /\ (Done(r) /\ TruthyStr(path))
                 => /\ Len(ScanCalls(r)) = 1
                    /\ resp[r] = Some(Response(200, "", Some(ScanCalls(r)[1].result), "none"))

\* A scan started for a given filepath, once, and its result answered.
C6_Witness ==
    \E r \in Reqs :
        /\ IsScan(r) /\ Done(r) /\ req[r].wellformed
        /\ req[r].obj.filepath = Some("sample-pci-xs.csv")
        /\ Len(ScanCalls(r)) = 1
        /\ Answer(r).status = 200

\* Every '%' of s starts an escape: two hexadecimal digits follow it.
WellFormedEscapes(s) ==
    \A i \in 1..Len(s) :
        s[i] = "%" => (i + 2 <= Len(s) /\ IsHex(s[i + 1]) /\ IsHex(s[i + 2]))

\* C7: the findings_url value of every printed viewer link is a percent-encoding
\* (each '%' starts an escape) whose percent-decoding is the request's findingsURL.
C7_ViewerLinkRoundTrip ==
    \A r \in Reqs :
        \A i \in 1..Len(FindingsLines(r)) :
            LET query == FindingsLines(r)[i].arg.view_query
            IN /\ WellFormedEscapes(query)
               /\ Unquote(query) = Val(req[r].obj.findingsURL)

\* A link printed for a findingsURL that itself reads as an escape: %4a
C7_Witness ==
    \E r \in Reqs :
        /\ Len(FindingsLines(r)) = 1
        /\ req[r].obj.findingsURL = Some(<<"%", "4", "a">>)
        /\ VerifiedTrue(r)

\* RFC 3986's reserved characters.
Reserved ==
    {":", "/", "?", "#", "[", "]", "@", "!", "$", "&", "'", "(", ")", "*", "+", ",", ";", "="}

\* https%3A%2F%2Fx%2Fy%3Fa%3Db
ScenarioFullyEncoded ==
    <<"h", "t", "t", "p", "s", "%", "3", "A", "%", "2", "F", "%", "2", "F", "x",
      "%", "2", "F", "y", "%", "3", "F", "a", "%", "3", "D", "b">>

\* https%3A//x/y%3Fa%3Db
ScenarioSlashKept ==
    <<"h", "t", "t", "p", "s", "%", "3", "A", "/", "/", "x", "/", "y",
      "%", "3", "F", "a", "%", "3", "D", "b">>

\* The parts of a printed findings message other than the encoded query.
MessageFrame(r, m) ==
    /\ m.download = Val(req[r].obj.findingsURL)
    /\ m.validUntil = Val(req[r].obj.validUntil)
    /\ m.view_root = req[r].url_root
    /\ m.view_path = "view?findings_url="

\* C8 as stated: the printed message holds the findings URL unencoded, its
\* expiry and the link <request root>view?findings_url=<enc>, where <enc> holds
\* no reserved character (':' '/' '?' '=' all encoded); for https://x/y?a=b it
\* is https%3A%2F%2Fx%2Fy%3Fa%3Db.
C8_EveryReservedEncoded ==
    \A r \in Reqs :
        \A i \in 1..Len(FindingsLines(r)) :
            LET m == FindingsLines(r)[i].arg
            IN /\ MessageFrame(r, m)
               /\ \A k \in 1..Len(m.view_query) : m.view_query[k] \notin Reserved
               /\ m.download = ScenarioURL => m.view_query = ScenarioFullyEncoded

\* C8 amended: as above, but '/' is the one reserved character left as it is:
\* <enc> holds no reserved character other than '/', every '/' of the URL is
\* still a '/' of <enc>, and for https://x/y?a=b it is https%3A//x/y%3Fa%3Db.
C8_ReservedEncodedExceptSlash ==
    \A r \in Reqs :
        \A i \in 1..Len(FindingsLines(r)) :
            LET m == FindingsLines(r)[i].arg
                slashes(s) == Cardinality({k \in 1..Len(s) : s[k] = "/"})
            IN /\ MessageFrame(r, m)
               /\ \A k \in 1..Len(m.view_query) : m.view_query[k] \notin (Reserved \ {"/"})
               /\ slashes(m.view_query) = slashes(m.download)
               /\ m.download = ScenarioURL => m.view_query = ScenarioSlashKept

\* The scenario's notification, verified and printed.
C8_Witness ==
    \E r \in Reqs :
        /\ Len(FindingsLines(r)) = 1
        /\ FindingsLines(r)[1].arg.download = ScenarioURL
        /\ FindingsLines(r)[1].arg.validUntil = "2025-01-01"
        /\ Done(r)

\* C9: whatever the interleaving of the calls, the SDK client and the
\* environment are as at start-up, the locals of each call hold what that call
\* read from its own request and got from its own verification call, and two
\* finished POST /ingest calls with the same body, the same headers and the
\* same verification results have the same response.
C9_Stateless ==
    /\ nightfall = NightfallClient /\ environ = Environment
    /\ \A r \in Reqs :
          /\ pc[r] # "start" => frame[r].data = GetJson(req[r])
          /\ pc[r] \in {"validate", "dispatch"}
             => /\ frame[r].request_signature = req[r].sig
                /\ frame[r].request_timestamp = req[r].ts
                /\ frame[r].request_data = Some(GetData(req[r]))
          /\ pc[r] = "dispatch"
             => /\ Len(ValidateCalls(r)) = 1
                /\ frame[r].valid = Some(ValidateCalls(r)[1].result)
    /\ \A r1, r2 \in Reqs :
          (/\ IsIngest(r1) /\ Done(r1) /\ Done(r2)
           /\ req[r1] = req[r2]
           /\ ValidateCalls(r1) = ValidateCalls(r2))
          => resp[r1] = resp[r2]

\* A duplicate delivery: two calls served the same verified findings
\* notification and both have answered.
C9_Witness ==
    \E r1, r2 \in Reqs :
        /\ r1 # r2 /\ req[r1] = req[r2]
        /\ IsIngest(r1) /\ Done(r1) /\ Done(r2)
        /\ VerifiedTrue(r1) /\ VerifiedTrue(r2)
        /\ Len(FindingsLines(r1)) = 1 /\ Len(FindingsLines(r2)) = 1

\* C10: whatever comes of reading findingsPresent, findingsURL and validUntil
\* (the "No sensitive data present!" line, the findings message, the encoded
\* URL, a KeyError) exists only for a call whose one verification call has
\* returned true.
C10_VerificationGatesFindings ==
    \A r \in Reqs :
        (\/ FindingsLines(r) # <<>>
         \/ Printed(r, "No sensitive data present!") # <<>>
         \/ frame[r].escaped_url # None
         \/ (Done(r) /\ Answer(r).exc = "KeyError"))
        => VerifiedTrue(r)

\* The findings message printed, after verification returned true.
C10_Witness ==
    \E r \in Reqs :
        /\ FindingsLines(r) # <<>>
        /\ frame[r].escaped_url # None
        /\ ValidateCalls(r)[1].result = TRUE

====
